---- MODULE Spec2Model ----
\* Model of the comprehension macro `comp!` (comp_macro/src/lib.rs).
\*
\* Frontend: Comp::parse = Mapping::parse, then ForIfClause::parse
\* (`for`, Pattern, `in`, sequence, parse_zero_or_more::<Condition>),
\* driven by syn::parse_macro_input!, which rejects unconsumed tokens.
\* Backend: Comp::to_tokens prints the flat token stream
\*   into_iter(<sequence>).flat_map(move |<pattern>|
\*        (true (&& <condition>)* ).then(|| { <mapping> }))
\* which the compiler parses again and the consumer drives lazily.
\*
\* Tokens are strings.  Operands "a" and "b" are boolean expressions over
\* the element bound by the pattern, "s" is the source sequence.
EXTENDS Integers, Sequences, FiniteSets, TLC

VARIABLES tokens, cursor, pc, mapping, pattern, sequence, conditions, err,
          expansion, src, consumed, frontiter, out, log, seqEvals, requests

vars == <<tokens, cursor, pc, mapping, pattern, sequence, conditions, err,
          expansion, src, consumed, frontiter, out, log, seqEvals, requests>>

(* ------------------------------ bounds -------------------------------- *)
\* longest arbitrary token string appended after the generator clause
MaxTail == 4
\* most operands in a well-formed run of conditions
MaxOperands == 3
\* most elements the source sequence yields
MaxSrc == 2

(* ------------------------------ tokens -------------------------------- *)
Idents == {"a", "b", "s"}
BinOps == {"&&", "||"}

Tok(toks, pos) == IF pos >= 1 /\ pos <= Len(toks) THEN toks[pos] ELSE "EOF"

(* ------------------------- syntax tree nodes -------------------------- *)
NoNode == [op |-> "none"]
Leaf(t, pos) == [op |-> "leaf", tok |-> t, at |-> pos]
Bin(o, l, r) == [op |-> o, l |-> l, r |-> r]
Ref(e) == [op |-> "ref", e |-> e]
Closure(e) == [op |-> "closure", e |-> e]
PatIdent(t) == [op |-> "ident", tok |-> t]

Ok(node, pos) == [ok |-> TRUE, node |-> node, pos |-> pos, exp |-> ""]
Fail(pos, exp) == [ok |-> FALSE, node |-> NoNode, pos |-> pos, exp |-> exp]

(* ------------- delegated sub-grammars: syn::Expr, syn::Pat ------------- *)
RECURSIVE ExprParse(_, _), OrTail(_, _, _), AndParse(_, _), AndTail(_, _, _),
          OperandParse(_, _), PatParseSingle(_, _)

\* a parsed operand or pattern under `&&`, which reads as two `&`
RefRef(r) == IF r.ok THEN Ok(Ref(Ref(r.node)), r.pos) ELSE r

\* syn::Pat::parse_single: an identifier, or `&` patterns.
\* On failure the cursor stays where the failure was met.
PatParseSingle(toks, pos) ==
  IF Tok(toks, pos) \in Idents THEN Ok(PatIdent(Tok(toks, pos)), pos + 1)
  ELSE IF Tok(toks, pos) = "&&" THEN RefRef(PatParseSingle(toks, pos + 1))
  ELSE Fail(pos, "pattern")

\* the body of a closure without parameters
AsClosure(r) == IF r.ok THEN Ok(Closure(r.node), r.pos) ELSE r

\* `if <cond>` and `for <pat> in <expr>` need a block next; the token
\* alphabet holds no brace group, so they fail where the block is expected
NeedBlock(c) == IF c.ok THEN Fail(c.pos, "block") ELSE c

ForLoopRest(toks, p) ==
  IF ~p.ok THEN p
  ELSE IF Tok(toks, p.pos) # "in" THEN Fail(p.pos, "in")
  ELSE NeedBlock(ExprParse(toks, p.pos + 1))

\* One operand of a binary expression.  `&&` in operand position is a double
\* reference, `||` opens a closure, `if` and `for` open block expressions.
OperandParse(toks, pos) ==
  IF Tok(toks, pos) \in Idents \cup {"true", "false"}
    THEN Ok(Leaf(Tok(toks, pos), pos), pos + 1)
  ELSE IF Tok(toks, pos) = "&&" THEN RefRef(OperandParse(toks, pos + 1))
  ELSE IF Tok(toks, pos) = "||" THEN AsClosure(ExprParse(toks, pos + 1))
  ELSE IF Tok(toks, pos) = "if" THEN NeedBlock(ExprParse(toks, pos + 1))
  ELSE IF Tok(toks, pos) = "for"
    THEN ForLoopRest(toks, PatParseSingle(toks, pos + 1))
  ELSE Fail(pos, "expression")

AndMore(toks, lhs, r) ==
  IF r.ok THEN AndTail(toks, Bin("&&", lhs, r.node), r.pos) ELSE r

AndTail(toks, lhs, pos) ==
  IF Tok(toks, pos) = "&&"
    THEN AndMore(toks, lhs, OperandParse(toks, pos + 1))
    ELSE Ok(lhs, pos)

AndFirst(toks, l) == IF l.ok THEN AndTail(toks, l.node, l.pos) ELSE l

AndParse(toks, pos) == AndFirst(toks, OperandParse(toks, pos))

OrMore(toks, lhs, r) ==
  IF r.ok THEN OrTail(toks, Bin("||", lhs, r.node), r.pos) ELSE r

OrTail(toks, lhs, pos) ==
  IF Tok(toks, pos) = "||"
    THEN OrMore(toks, lhs, AndParse(toks, pos + 1))
    ELSE Ok(lhs, pos)

OrFirst(toks, l) == IF l.ok THEN OrTail(toks, l.node, l.pos) ELSE l

\* syn::Expr::parse: `&&` binds tighter than `||`, both associate to the left;
\* parsing stops, successfully, at the first token that continues no
\* expression.  A failure leaves the cursor where it was met: the tokens read
\* before it stay consumed.
ExprParse(toks, pos) == OrFirst(toks, AndParse(toks, pos))

\* syn's ToTokens for an expression or a pattern: the tokens in source order,
\* without any enclosing group.
RECURSIVE ToTokens(_)
ToTokens(n) ==
  IF n.op \in {"leaf", "ident"} THEN <<n.tok>>
  ELSE IF n.op = "ref" THEN
    IF n.e.op = "ref" THEN <<"&&">> \o ToTokens(n.e.e) ELSE <<"&">> \o ToTokens(n.e)
  ELSE IF n.op = "closure" THEN <<"||">> \o ToTokens(n.e)
  ELSE IF n.op \in BinOps THEN ToTokens(n.l) \o <<n.op>> \o ToTokens(n.r)
  ELSE <<>>

(* ------------------------------ frontend ------------------------------ *)
\* variant: a keyword that is skipped when present and not required
TokenParse_Optional(toks, pos, kw) ==
  IF Tok(toks, pos) = kw THEN Ok(NoNode, pos + 1) ELSE Ok(NoNode, pos)

\* a keyword token: consumed only when it is the next token
TokenParse(toks, pos, kw) ==
  IF Tok(toks, pos) = kw THEN Ok(NoNode, pos + 1) ELSE Fail(pos, kw)

MappingParse(toks, pos) == ExprParse(toks, pos)

PatternParse(toks, pos) == PatParseSingle(toks, pos)

\* Condition::parse: the `if` token, then an expression, on the one cursor
ConditionParse(toks, pos) ==
  IF Tok(toks, pos) = "if" THEN ExprParse(toks, pos + 1) ELSE Fail(pos, "if")

\* Comp::to_tokens: the four holes of the quoted template
\*   into_iter(#sequence).flat_map(move |#pattern|
\*        (true #(&& #conditions)* ).then(|| { #mapping }))
\* The conditions are spliced, unparenthesised, after `true`, each behind `&&`.
RECURSIVE Conjoin(_)
Conjoin(conds) ==
  IF conds = <<>> THEN <<>>
  ELSE <<"&&">> \o ToTokens(Head(conds)) \o Conjoin(Tail(conds))

\* variant: the conjunction starts from `false`
CompToTokens_FalseBase(m, p, s, conds) ==
  [seq |-> ToTokens(s), pat |-> ToTokens(p),
   admit |-> <<"false">> \o Conjoin(conds), map |-> ToTokens(m)]

CompToTokens(m, p, s, conds) ==
  [seq |-> ToTokens(s), pat |-> ToTokens(p),
   admit |-> <<"true">> \o Conjoin(conds), map |-> ToTokens(m)]

NoExpansion == [seq |-> <<>>, pat |-> <<>>, admit |-> <<>>, map |-> <<>>]
NoErr == [exp |-> "", pos |-> 0]

(* ------------------- the expansion, compiled and run ------------------- *)
Elements == [a : BOOLEAN, b : BOOLEAN]

\* the compiler parses the expansion's token stream again
AdmitTree(x) == ExprParse(x.admit, 1).node
MapTree(x) == ExprParse(x.map, 1).node

RECURSIVE IsBool(_)
IsBool(n) ==
  IF n.op = "leaf" THEN n.tok \in {"a", "b", "true", "false"}
  ELSE IF n.op \in BinOps THEN IsBool(n.l) /\ IsBool(n.r)
  ELSE FALSE

\* the expansion type-checks: the sequence is the source, the pattern a plain
\* binding, and `&&`, `||`, `bool::then` only meet booleans
WellTyped(x) ==
  /\ x.seq = <<"s">>
  /\ Len(x.pat) = 1
  /\ IsBool(AdmitTree(x))
  /\ IsBool(MapTree(x))

LeafVal(t, el) ==
  IF t = "true" THEN TRUE ELSE IF t = "false" THEN FALSE
  ELSE IF t = "a" THEN el.a ELSE el.b

\* short-circuit evaluation; trace lists the operands read, by token position
RECURSIVE Eval(_, _)
Then(l, r) == [val |-> r.val, trace |-> l.trace \o r.trace]

EvalRight(n, el, l) ==
  IF (n.op = "&&" /\ ~l.val) \/ (n.op = "||" /\ l.val) THEN l
  ELSE Then(l, Eval(n.r, el))

Eval(n, el) ==
  IF n.op = "leaf" THEN [val |-> LeafVal(n.tok, el), trace |-> <<n.at>>]
  ELSE EvalRight(n, el, Eval(n.l, el))

Event(kind, i, at) == [kind |-> kind, el |-> i, at |-> at]

\* one call of the flat_map closure on element number i:
\* (admit).then(|| { mapping }) gives Some(mapping) or None
Reads(c, i) == [k \in 1..Len(c.trace) |-> Event("cond", i, c.trace[k])]

BoolThen(x, el, i, c) ==
  IF c.val
    THEN [full |-> TRUE, val |-> Eval(MapTree(x), el).val,
          events |-> Reads(c, i) \o <<Event("map", i, 0)>>]
    ELSE [full |-> FALSE, val |-> FALSE, events |-> Reads(c, i)]

ClosureCall(x, el, i) == BoolThen(x, el, i, Eval(AdmitTree(x), el))

NoIter == [some |-> FALSE, full |-> FALSE, val |-> FALSE, el |-> 0]

\* variant: an iterator that is never spent
OptionNext_Unspent(it) == it

\* option::IntoIter::next: yields its value once
OptionNext(it) == [it EXCEPT !.full = FALSE]

(* ------------------------------- inputs -------------------------------- *)
SeqsUpTo(S, n) == UNION {[1..k -> S] : k \in 0..n}

TailAlphabet == {"a", "b", "&&", "||", "if"}
RawTails == SeqsUpTo(TailAlphabet, MaxTail)

\* well-formed runs of conditions: `if`, then operands separated by `&&`, `||`
\* or the `if` of the next condition
CondRuns ==
  UNION {{[i \in 1..(2 * k) |->
             IF i = 1 THEN "if"
             ELSE IF i % 2 = 0 THEN os[i \div 2] ELSE gs[(i - 1) \div 2]] :
           os \in [1..k -> {"a", "b"}], gs \in [1..(k - 1) -> BinOps \cup {"if"}]} :
         k \in 1..MaxOperands}

Mappings == {<<"a">>, <<"a", "||", "b">>}
Heads ==
  {m \o <<"for", "a", "in", "s">> : m \in Mappings}
  \cup {<<"a", "a", "in", "s">>,              \* no `for`
        <<"a", "for", "in", "s">>,            \* no pattern
        <<"a", "for", "a", "s">>,             \* no `in`
        <<"a", "for", "a", "in">>,            \* no sequence
        <<"a", "for", "a", ",", "b", "in", "s">>,  \* name, name
        <<"a", "a", "s">>,                    \* no `for`, no `in`
        <<"a", "for", "in">>,                 \* no pattern, no sequence
        <<"a", "for", "a">>,                  \* no `in`, no sequence
        <<"a", "for", "a", "in", ",", "s">>,  \* `,` where the sequence starts
        <<"a", "for", "a", "in", "for", "a", "in", "s">>,  \* `for` there
        <<"for", "a", "in", "s">>}            \* no mapping

Inputs == {h \o t : h \in Heads, t \in RawTails \cup CondRuns}

(* ------------------------------- actions ------------------------------- *)
Init ==
  /\ tokens \in Inputs
  /\ cursor = 1
  /\ pc = "mapping"
  /\ mapping = NoNode /\ pattern = NoNode /\ sequence = NoNode
  /\ conditions = <<>>
  /\ err = NoErr
  /\ expansion = NoExpansion
  /\ src = <<>> /\ consumed = 0 /\ frontiter = NoIter
  /\ out = <<>> /\ log = <<>> /\ seqEvals = 0 /\ requests = 0

runVars == <<expansion, src, consumed, frontiter, out, log, seqEvals, requests>>

\* `?` on a failed sub-parse: the error is returned at once
Reject(r) == pc' = "rejected" /\ err' = [exp |-> r.exp, pos |-> r.pos]

\* Comp::parse: input.parse::<Mapping>()?
ParseMapping ==
  /\ pc = "mapping"
  /\ \E r \in {MappingParse(tokens, cursor)} :
     /\ cursor' = r.pos
     /\ IF r.ok THEN mapping' = r.node /\ pc' = "for" /\ err' = err
                ELSE mapping' = mapping /\ Reject(r)
  /\ UNCHANGED <<tokens, pattern, sequence, conditions, runVars>>

\* ForIfClause::parse: input.parse::<Token![for]>()?
ParseFor ==
  /\ pc = "for"
  /\ \E r \in {TokenParse(tokens, cursor, "for")} :
     /\ cursor' = r.pos
     /\ IF r.ok THEN pc' = "pattern" /\ err' = err ELSE Reject(r)
  /\ UNCHANGED <<tokens, mapping, pattern, sequence, conditions, runVars>>

\* ForIfClause::parse: let pattern: Pattern = input.parse()?
ParsePattern ==
  /\ pc = "pattern"
  /\ \E r \in {PatternParse(tokens, cursor)} :
     /\ cursor' = r.pos
     /\ IF r.ok THEN pattern' = r.node /\ pc' = "in" /\ err' = err
                ELSE pattern' = pattern /\ Reject(r)
  /\ UNCHANGED <<tokens, mapping, sequence, conditions, runVars>>

\* ForIfClause::parse: input.parse::<Token![in]>()?
ParseIn ==
  /\ pc = "in"
  /\ \E r \in {TokenParse(tokens, cursor, "in")} :
     /\ cursor' = r.pos
     /\ IF r.ok THEN pc' = "sequence" /\ err' = err ELSE Reject(r)
  /\ UNCHANGED <<tokens, mapping, pattern, sequence, conditions, runVars>>

\* ForIfClause::parse: let sequence: syn::Expr = input.parse()?
ParseSequence ==
  /\ pc = "sequence"
  /\ \E r \in {ExprParse(tokens, cursor)} :
     /\ cursor' = r.pos
     /\ IF r.ok THEN sequence' = r.node /\ pc' = "conditions" /\ err' = err
                ELSE sequence' = sequence /\ Reject(r)
  /\ UNCHANGED <<tokens, mapping, pattern, conditions, runVars>>

\* variant: a parsed item is put in front of the earlier ones
ParseZeroOrMore_Prepend ==
  /\ pc = "conditions"
  /\ \E r \in {ConditionParse(tokens, cursor)} :
     /\ cursor' = r.pos
     /\ IF r.ok THEN conditions' = <<r.node>> \o conditions /\ pc' = pc
                ELSE conditions' = conditions /\ pc' = "parsed"
  /\ UNCHANGED <<tokens, mapping, pattern, sequence, err, runVars>>

\* parse_zero_or_more, one turn of `while let Ok(item) = input.parse::<T>()`:
\* an Ok item is pushed; an Err ends the loop and is dropped, and
\* ForIfClause::parse and Comp::parse return Ok.  The attempt runs on the
\* stream itself, so the cursor stays wherever the attempt left it.
ParseZeroOrMore ==
  /\ pc = "conditions"
  /\ \E r \in {ConditionParse(tokens, cursor)} :
     /\ cursor' = r.pos
     /\ IF r.ok THEN conditions' = Append(conditions, r.node) /\ pc' = pc
                ELSE conditions' = conditions /\ pc' = "parsed"
  /\ UNCHANGED <<tokens, mapping, pattern, sequence, err, runVars>>

\* comp: syn::parse_macro_input!(input as Comp) accepts the parsed Comp only
\* when no token is left after it
CheckConsumed ==
  /\ pc = "parsed"
  /\ IF cursor <= Len(tokens)
       THEN Reject(Fail(cursor, "end of input"))
       ELSE pc' = "quote" /\ err' = err
  /\ UNCHANGED <<tokens, cursor, mapping, pattern, sequence, conditions, runVars>>

\* comp: quote! { #c }.into()
Quote ==
  /\ pc = "quote"
  /\ expansion' = CompToTokens(mapping, pattern, sequence, conditions)
  /\ pc' = "expanded"
  /\ UNCHANGED <<tokens, cursor, mapping, pattern, sequence, conditions, err,
                 src, consumed, frontiter, out, log, seqEvals, requests>>

parseVars == <<tokens, cursor, mapping, pattern, sequence, conditions, err, expansion>>

\* variant: construction already runs the closure on the first element
Construct_Eager ==
  /\ pc = "expanded"
  /\ WellTyped(expansion)
  /\ \E s \in SeqsUpTo(Elements, MaxSrc) :
       /\ src' = s
       /\ IF s = <<>> THEN UNCHANGED <<consumed, frontiter, log>>
          ELSE \E r \in {ClosureCall(expansion, s[1], 1)} :
                 /\ consumed' = 1
                 /\ frontiter' = [some |-> TRUE, full |-> r.full, val |-> r.val,
                                  el |-> 1]
                 /\ log' = r.events
  /\ seqEvals' = seqEvals + 1
  /\ pc' = "iter"
  /\ UNCHANGED <<parseVars, out, requests>>

\* the expansion is evaluated: into_iter(<sequence>) reads the sequence
\* expression, flat_map only stores the closure
Construct ==
  /\ pc = "expanded"
  /\ WellTyped(expansion)
  /\ \E s \in SeqsUpTo(Elements, MaxSrc) : src' = s
  /\ seqEvals' = seqEvals + 1
  /\ pc' = "iter"
  /\ UNCHANGED <<parseVars, consumed, frontiter, out, log, requests>>

\* the consumer asks for the next output
Request ==
  /\ pc = "iter"
  /\ pc' = "next"
  /\ requests' = requests + 1
  /\ UNCHANGED <<parseVars, src, consumed, frontiter, out, log, seqEvals>>

\* FlatMap::next, front iterator present: its value is returned to the
\* consumer, or, when it is spent, it is cleared
FrontNext ==
  /\ pc = "next"
  /\ frontiter.some
  /\ IF frontiter.full
       THEN /\ out' = Append(out, frontiter.val)
            /\ log' = Append(log, Event("deliver", frontiter.el, 0))
            /\ frontiter' = OptionNext(frontiter)
            /\ pc' = "iter"
       ELSE /\ frontiter' = NoIter
            /\ UNCHANGED <<out, log, pc>>
  /\ UNCHANGED <<parseVars, src, consumed, seqEvals, requests>>

\* FlatMap::next, no front iterator: the next source element goes through
\* the closure and its Option becomes the front iterator; at the end of the
\* source None is returned
PullSource ==
  /\ pc = "next"
  /\ ~frontiter.some
  /\ IF consumed < Len(src)
       THEN \E r \in {ClosureCall(expansion, src[consumed + 1], consumed + 1)} :
            /\ consumed' = consumed + 1
            /\ frontiter' = [some |-> TRUE, full |-> r.full, val |-> r.val,
                             el |-> consumed + 1]
            /\ log' = log \o r.events
            /\ pc' = pc
       ELSE /\ pc' = "done"
            /\ UNCHANGED <<consumed, frontiter, log>>
  /\ UNCHANGED <<parseVars, src, out, seqEvals, requests>>

Next ==
  \/ ParseMapping \/ ParseFor \/ ParsePattern \/ ParseIn \/ ParseSequence
  \/ ParseZeroOrMore \/ CheckConsumed \/ Quote
  \/ Construct \/ Request \/ FrontNext \/ PullSource

Spec == Init /\ [][Next]_vars

(* ------------------- vocabulary of the properties ---------------------- *)
EvalPcs == {"iter", "next", "done"}
AcceptedPcs == {"quote", "expanded"} \cup EvalPcs

\* a condition evaluated as its own expression, the pattern bound to el
Holds(c, el) == Eval(c, el).val
AllHold(conds, el) == \A i \in 1..Len(conds) : Holds(conds[i], el)

\* the elements of s for which every condition holds, each mapped
RECURSIVE FilterMap(_)
FilterMap(s) ==
  IF s = <<>> THEN <<>>
  ELSE (IF AllHold(conditions, Head(s)) THEN <<Eval(mapping, Head(s)).val>> ELSE <<>>)
       \o FilterMap(Tail(s))

\* where condition i starts in the admit expression `true && c1 && c2 ...`
RECURSIVE AdmitStart(_)
AdmitStart(i) ==
  IF i = 1 THEN 3 ELSE AdmitStart(i - 1) + Len(ToTokens(conditions[i - 1])) + 1

\* the condition an operand of the admit expression comes from (0: `true`)
CondOf(at) ==
  IF \E i \in 1..Len(conditions) :
       at >= AdmitStart(i) /\ at < AdmitStart(i) + Len(ToTokens(conditions[i]))
    THEN CHOOSE i \in 1..Len(conditions) :
       at >= AdmitStart(i) /\ at < AdmitStart(i) + Len(ToTokens(conditions[i]))
    ELSE 0

Delivered(i) == {k \in 1..Len(log) : log[k] = Event("deliver", i, 0)}
Mapped(i) == {k \in 1..Len(log) : log[k] = Event("map", i, 0)}

\* token strings of the documented grammar, recognised without the parser
IsExprToks(t) ==
  /\ Len(t) % 2 = 1
  /\ \A i \in 1..Len(t) : IF i % 2 = 1 THEN t[i] \in Idents ELSE t[i] \in BinOps

IsCondRun(t) ==
  /\ Len(t) % 2 = 0
  /\ \A i \in 1..Len(t) :
       IF i = 1 THEN t[i] = "if"
       ELSE IF i % 2 = 0 THEN t[i] \in Idents ELSE t[i] \in BinOps \cup {"if"}

IsNameList(t) ==
  /\ Len(t) % 2 = 1
  /\ \A i \in 1..Len(t) : IF i % 2 = 1 THEN t[i] \in Idents ELSE t[i] = ","

NextIf(t) ==
  IF \E i \in 2..Len(t) : t[i] = "if"
    THEN CHOOSE i \in 2..Len(t) : t[i] = "if" /\ \A j \in 2..(i - 1) : t[j] # "if"
    ELSE Len(t) + 1

\* a run of conditions cut at its `if` tokens: the expressions E1 .. En
RECURSIVE SplitAtIf(_)
SplitAtIf(t) ==
  IF t = <<>> THEN <<>>
  ELSE <<SubSeq(t, 2, NextIf(t) - 1)>> \o SplitAtIf(SubSeq(t, NextIf(t), Len(t)))

Printed(conds) == [i \in 1..Len(conds) |-> ToTokens(conds[i])]

RECURSIVE IfConds(_)
IfConds(conds) ==
  IF conds = <<>> THEN <<>>
  ELSE <<"if">> \o ToTokens(Head(conds)) \o IfConds(Tail(conds))

\* the token string the parsed Comp stands for
Reprint ==
  ToTokens(mapping) \o <<"for">> \o ToTokens(pattern) \o <<"in">>
    \o ToTokens(sequence) \o IfConds(conditions)

\* where the conditions start: right after the sequence expression
CondStart ==
  Len(ToTokens(mapping)) + Len(ToTokens(pattern)) + Len(ToTokens(sequence)) + 3
CondSuffix == SubSeq(tokens, CondStart, Len(tokens))

FirstOfPattern == Idents \cup {"&&"}
FirstOfExpr == Idents \cup {"true", "false", "&&", "||", "if", "for"}

(* ------------------------------ properties ----------------------------- *)

\* C1: when the iteration is over, the outputs are, in source order, exactly
\* the mapping of those source elements for which every condition, evaluated
\* as its own expression, is true.
C1_OutputIsFilterMap == pc = "done" => out = FilterMap(src)

\* C2: for every element, an operand of condition Cj is read only if every
\* earlier condition Ci (i < j) is true for that element, and the mapping is
\* evaluated only if every condition is true for it.
C2_StopsAtFirstFalseCondition ==
  pc \in EvalPcs =>
    \A k \in 1..Len(log) :
      /\ (log[k].kind = "cond" /\ CondOf(log[k].at) >= 1) =>
           \A i \in 1..(CondOf(log[k].at) - 1) : Holds(conditions[i], src[log[k].el])
      /\ log[k].kind = "map" => AllHold(conditions, src[log[k].el])

\* the keywords of the comprehension grammar, which begin no sequence in it
Keywords == {"for", "in", "if"}

\* C3 as stated: whenever the token at the place of `for`, the pattern, `in`
\* or the sequence expression is not that element (for the sequence: end of
\* input, `,` or a keyword of the comprehension), the parse step there ends in
\* the error that expects that element at that very position.
C3_MissingElementAtItsPosition ==
  [][ /\ (pc = "for" /\ Tok(tokens, cursor) # "for") =>
           (pc' = "rejected" /\ err' = [exp |-> "for", pos |-> cursor])
      /\ (pc = "pattern" /\ Tok(tokens, cursor) \notin FirstOfPattern) =>
           (pc' = "rejected" /\ err' = [exp |-> "pattern", pos |-> cursor])
      /\ (pc = "in" /\ Tok(tokens, cursor) # "in") =>
           (pc' = "rejected" /\ err' = [exp |-> "in", pos |-> cursor])
      /\ (pc = "sequence" /\ Tok(tokens, cursor) \in Keywords \cup {"EOF", ","}) =>
           (pc' = "rejected" /\ err' = [exp |-> "expression", pos |-> cursor]) ]_vars

\* C3, amended: a missing `for`, pattern or `in` is reported as that element
\* at its position, and so is a missing sequence when the token there begins
\* no expression; when `if` or `for` stands where the sequence should start,
\* the parse is still rejected, but the error is raised to the right of that
\* position.  Nothing is expanded, and a rejected parse stays rejected.
C3_MissingElementIsReported ==
  [][ /\ (pc = "for" /\ Tok(tokens, cursor) # "for") =>
           (pc' = "rejected" /\ err' = [exp |-> "for", pos |-> cursor])
      /\ (pc = "pattern" /\ Tok(tokens, cursor) \notin FirstOfPattern) =>
           (pc' = "rejected" /\ err' = [exp |-> "pattern", pos |-> cursor])
      /\ (pc = "in" /\ Tok(tokens, cursor) # "in") =>
           (pc' = "rejected" /\ err' = [exp |-> "in", pos |-> cursor])
      /\ (pc = "sequence" /\ Tok(tokens, cursor) \notin FirstOfExpr) =>
           (pc' = "rejected" /\ err' = [exp |-> "expression", pos |-> cursor])
      /\ (pc = "sequence" /\ Tok(tokens, cursor) \in {"if", "for"}) =>
           (pc' = "rejected" /\ err'.pos > cursor /\ err'.exp # "")
      /\ pc' = "rejected" => expansion' = NoExpansion
      /\ pc = "rejected" => pc' = "rejected" ]_vars

\* C3 witness: with both `for` and `in` missing, `a a s` was rejected
\* expecting `for`, the leftmost of the two, right after the mapping.
C3_Witness ==
  /\ pc = "rejected"
  /\ err = [exp |-> "for", pos |-> 2]
  /\ SubSeq(tokens, 1, 3) = <<"a", "a", "s">>

\* C4: an attempt of the condition loop that fails leaves the cursor where it
\* was before the attempt and raises no error.
C4_FailedAttemptKeepsCursor ==
  [][ (pc = "conditions" /\ pc' = "parsed") => (cursor' = cursor /\ err' = err) ]_vars

\* C5: an input whose pattern is a comma-separated list of names,
\* `mapping for name (, name)* in sequence (if expression)*`, is not rejected.
C5_NameListPatternIsAccepted ==
  (\E f \in 1..Len(tokens), n \in 1..Len(tokens) :
      /\ f < n /\ n < Len(tokens)
      /\ tokens[f] = "for" /\ tokens[n] = "in"
      /\ IsExprToks(SubSeq(tokens, 1, f - 1))
      /\ IsNameList(SubSeq(tokens, f + 1, n - 1))
      /\ tokens[n + 1] \in Idents
      /\ IsCondRun(SubSeq(tokens, n + 2, Len(tokens))))
    => pc # "rejected"

\* C6: with zero parsed conditions the admit expression is the bare `true`,
\* and the finished iteration has one output per source element, the i-th
\* being the mapping of the i-th element.
C6_ZeroConditionsIsPureMap ==
  (pc \in EvalPcs /\ conditions = <<>>) =>
    /\ expansion.admit = <<"true">>
    /\ pc = "done" =>
         /\ Len(out) = Len(src)
         /\ \A i \in 1..Len(src) : out[i] = Eval(mapping, src[i]).val

\* C6 witness: a finished pure map over two elements.
C6_Witness == pc = "done" /\ conditions = <<>> /\ Len(src) = 2 /\ Len(out) = 2

\* C7: every consumed source element has contributed at most one output, so
\* the outputs never outnumber the consumed elements; an empty source gives
\* no output and evaluates neither a condition nor the mapping.
C7_AtMostOneOutputPerElement ==
  /\ Len(out) <= consumed
  /\ \A i \in 1..Len(src) : Cardinality(Delivered(i)) <= 1
  /\ \A i \in 1..Len(src) : Delivered(i) # {} => i <= consumed
  /\ Cardinality({k \in 1..Len(log) : log[k].kind = "deliver"}) = Len(out)
  /\ (pc \in EvalPcs /\ src = <<>>) => (out = <<>> /\ log = <<>>)

\* C7 witness: two elements consumed under a condition, one of them admitted.
C7_Witness ==
  pc = "done" /\ consumed = 2 /\ Len(out) = 1 /\ conditions # <<>>

\* C8: when the tokens after the sequence expression are n >= 0 well-formed
\* conditions up to the end of input, the condition loop ends with exactly
\* those n expressions, in source order, and the cursor at the end of input.
C8_ConditionsInSourceOrder ==
  /\ (pc = "conditions" /\ conditions = <<>>) => cursor = CondStart
  /\ (pc = "parsed" /\ IsCondRun(CondSuffix)) =>
       /\ Printed(conditions) = SplitAtIf(CondSuffix)
       /\ cursor = Len(tokens) + 1

\* C8 witness: two different well-formed conditions were parsed to the end.
C8_Witness ==
  /\ pc = "parsed" /\ IsCondRun(CondSuffix)
  /\ Len(conditions) = 2
  /\ ToTokens(conditions[1]) # ToTokens(conditions[2])

\* C9: the sequence expression is evaluated once, at construction, which
\* evaluates no condition and no mapping; a request consumes source elements
\* up to and including the first admitted one; no condition or mapping of a
\* later element is evaluated before an admitted earlier element's output
\* has been delivered.
C9_LazyEvaluation ==
  /\ seqEvals = (IF pc \in EvalPcs THEN 1 ELSE 0)
  /\ requests = 0 => (log = <<>> /\ consumed = 0)
  /\ pc = "iter" =>
       /\ Len(out) = requests
       /\ consumed > 0 => log[Len(log)] = Event("deliver", consumed, 0)
  /\ \A k \in 1..Len(log) :
       log[k].kind \in {"cond", "map"} =>
         \A i \in 1..(log[k].el - 1) :
           Mapped(i) # {} => \E m \in Delivered(i) : m < k

\* C9 witness: the second element's condition was evaluated after the first
\* element's output had been delivered.
C9_Witness ==
  /\ consumed = 2 /\ Len(out) = 2 /\ conditions # <<>>
  /\ \E k \in 1..Len(log) : log[k].kind = "cond" /\ log[k].el = 2 /\ log[k].at > 1

\* C10: an accepted input consists of exactly the tokens of the parsed Comp:
\* the mapping, `for`, the pattern, `in`, the sequence and the recorded
\* conditions.
C10_AcceptedInputIsTheParsedComp == pc \in AcceptedPcs => Reprint = tokens

====
